---- MODULE Spec2Model ----
(***************************************************************************)
(* A model of razzie/dlutil: Download and its DownloadOption mutators.     *)
(* A call of Download is a small state machine: the option list is merged  *)
(* into a copy of DefaultDownloadOptions, the cache is consulted, the      *)
(* request is built and exchanged, the response is classified and, when a  *)
(* cache is configured, the body is read and written through.              *)
(*                                                                         *)
(* Strings the code only compares or copies are TLA+ strings.  A raw       *)
(* Content-Type header value is the sequence of its ";"-separated          *)
(* segments, the first being the media type as written.  A body is a       *)
(* sequence of JSON-level tokens.                                          *)
(***************************************************************************)
EXTENDS Integers, Sequences

VARIABLES
    DefaultDownloadOptions, \* the package-level default options
    pc,          \* per call: the position of the call in Download
    url,         \* per call: the url argument
    args,        \* per call: the option list o
    opts,        \* per call: the local opts of Download
    lookup,      \* per call: outcome of opts.Cache.Get ("none" when not made)
    req,         \* per call: the request as handed to Client.Do
    resp,        \* per call: status code and Content-Type header of the response
    respBody,    \* per call: the stream resp.Body
    result,      \* per call: the pair (io.ReadCloser, error) returned
    exchanges,   \* per call: number of Client.Do calls made (observation)
    setResult,   \* per call: outcome of opts.Cache.Set ("none" when not made)
    cache,       \* the razcache.Cache store: key -> entry
    origin,      \* per key: the response an entry was written from (observation)
    ncalls,      \* number of Download calls started so far
    entry,       \* per call: the function the caller called
    raised,      \* per call: the error Client.Do returned ("" when none)
    wrapped      \* per call: what DownloadJSON returned

vars == <<DefaultDownloadOptions, pc, url, args, opts, lookup, req, resp,
          respBody, result, exchanges, setResult, cache, origin, ncalls,
          entry, raised, wrapped>>

----------------------------------------------------------------------------
(* Bounds of the model *)

MaxOpts == 3      \* longest option list passed to one call
MaxCalls == 2     \* Download calls in one behaviour

----------------------------------------------------------------------------
(* Universe of values *)

Calls == {1, 2}

URLs == {"https://x/w", ":bad"}

\* status codes around the two boundaries of [200, 400)
StatusCodes == {199, 200, 399, 400}

CacheKeys == {"k1", "k2"}

RECURSIVE SeqsUpTo(_, _)
SeqsUpTo(S, n) ==
    IF n = 0 THEN {<<>>}
    ELSE LET shorter == SeqsUpTo(S, n - 1)
         IN shorter \cup {Append(s, x) : s \in shorter, x \in S}

\* response bodies: empty, one JSON object, no JSON, an object and more
Bodies == {<<>>, <<"objA">>, <<"junk">>, <<"objA", "junk">>}

\* raw Content-Type header values of a response; <<>> is no header
ContentTypes ==
    { <<>>,
      <<"application/json">>,
      <<"application/json", "charset=utf-8">>,
      <<"Application/JSON">>,
      <<"text/plain">>,
      <<"text/plain", "charset=utf-8">> }

HeaderNames == {"X", "Content-Type", "User-Agent"}

----------------------------------------------------------------------------
(* Errors and streams *)

NoError == [kind |-> "nil", StatusCode |-> 0, value |-> "", header |-> <<>>]

BadStatus_noCode(statusCode) ==
    [kind |-> "BadStatusError", StatusCode |-> 0, value |-> "", header |-> <<>>]

\* BadStatus(statusCode) = &BadStatusError{StatusCode: statusCode}
BadStatus(statusCode) ==
    [kind |-> "BadStatusError", StatusCode |-> statusCode, value |-> "", header |-> <<>>]

\* the value of type T decoded from the body, returned as the error
StructuredError(v) ==
    [kind |-> "StructuredError", StatusCode |-> 0, value |-> v, header |-> <<>>]

\* errors.New("bad content-type: " + resp.Header.Get("Content-Type"))
BadContentType(h) ==
    [kind |-> "bad content-type", StatusCode |-> 0, value |-> "", header |-> h]

\* an error of a collaborator, passed on as it is
ForeignError(what) ==
    [kind |-> what, StatusCode |-> 0, value |-> "", header |-> <<>>]

NilBody == [kind |-> "nil", data |-> <<>>]
\* the stream resp.Body itself
RespStream == [kind |-> "resp", data |-> <<>>]
\* io.NopCloser over an in-memory reader of content
MemStream(content) == [kind |-> "mem", data |-> content]

\* a response body stream: data, then EOF or (fails) a read error
NoStream == [data |-> <<>>, pos |-> 0, fails |-> FALSE, closed |-> FALSE, open |-> FALSE]
NewStream(data, fails) ==
    [data |-> data, pos |-> 0, fails |-> fails, closed |-> FALSE, open |-> TRUE]

Rest(s) == SubSeq(s.data, s.pos + 1, Len(s.data))

----------------------------------------------------------------------------
(* DownloadOptions and the DownloadOption mutators *)

\* textproto.CanonicalMIMEHeaderKey, as used by http.Header.Set and Add
CanonicalMIMEHeaderKey(key) ==
    CASE key = "x" -> "X"
      [] key = "content-type" -> "Content-Type"
      [] key = "user-agent" -> "User-Agent"
      [] OTHER -> key

NoHeader == [k \in HeaderNames |-> <<>>]

HeaderSet_keepsOld(h, key, value) ==
    [h EXCEPT ![CanonicalMIMEHeaderKey(key)] = Append(@, value)]

\* http.Header.Set: the key's values become exactly [value]
HeaderSet(h, key, value) ==
    [h EXCEPT ![CanonicalMIMEHeaderKey(key)] = <<value>>]

HeaderAdd_replaces(h, key, value) ==
    [h EXCEPT ![CanonicalMIMEHeaderKey(key)] = <<value>>]

\* http.Header.Add: value is appended to the key's values
HeaderAdd(h, key, value) ==
    [h EXCEPT ![CanonicalMIMEHeaderKey(key)] = Append(@, value)]

\* for _, value := range values { do.Header.Add(key, value) }
RECURSIVE HeaderAddAll(_, _, _)
HeaderAddAll(h, key, values) ==
    IF values = <<>> THEN h
    ELSE HeaderAddAll(HeaderAdd(h, key, Head(values)), key, Tail(values))

WithContext(do, ctx) ==
    IF ctx = "nil" THEN [do EXCEPT !.Ctx = "context.Background"]
    ELSE [do EXCEPT !.Ctx = ctx]

WithClient(do, client) ==
    IF client = "nil" THEN [do EXCEPT !.Client = "http.DefaultClient"]
    ELSE [do EXCEPT !.Client = client]

WithCache(do, c, key, ttl) ==
    [do EXCEPT !.Cache = c, !.CacheKey = key, !.CacheTTL = ttl]

WithErrorType(do) == [do EXCEPT !.GenError = "WithErrorType"]

WithMethod(do, method) == [do EXCEPT !.Method = method]

WithBody(do, body, contentType) ==
    [do EXCEPT !.Body = body, !.BodyContentType = contentType]

WithHeader(do, key, value0, values) ==
    [do EXCEPT !.Header = HeaderAddAll(HeaderSet(@, key, value0), key, values)]

\* agent is what fakeuseragent.RandomUserAgent() returned
WithFakeUserAgent(do, agent) == WithHeader(do, "User-Agent", agent, <<>>)

WithAcceptContentType(do, contentType) ==
    [do EXCEPT !.AcceptContentType = contentType]

WithIgnoreStatusCode(do) == [do EXCEPT !.IgnoreStatusCode = TRUE]

\* o(&opts) for one DownloadOption o, given as a record naming its constructor
Apply(do, o) ==
    CASE o.op = "WithContext" -> WithContext(do, o.ctx)
      [] o.op = "WithClient" -> WithClient(do, o.client)
      [] o.op = "WithCache" -> WithCache(do, o.cache, o.key, o.ttl)
      [] o.op = "WithErrorType" -> WithErrorType(do)
      [] o.op = "WithMethod" -> WithMethod(do, o.method)
      [] o.op = "WithBody" -> WithBody(do, o.body, o.contentType)
      [] o.op = "WithHeader" -> WithHeader(do, o.key, o.value0, o.values)
      [] o.op = "WithFakeUserAgent" -> WithFakeUserAgent(do, o.agent)
      [] o.op = "WithAcceptContentType" -> WithAcceptContentType(do, o.contentType)
      [] o.op = "WithIgnoreStatusCode" -> WithIgnoreStatusCode(do)

\* for _, o := range o { o(&opts) }
RECURSIVE ApplyAll(_, _)
ApplyAll(do, os) ==
    IF os = <<>> THEN do ELSE ApplyAll(Apply(do, Head(os)), Tail(os))

\* the value DefaultDownloadOptions is initialised to
InitialDefaults ==
    [ Ctx |-> "context.Background",
      Client |-> "http.DefaultClient",
      Cache |-> "nil",
      CacheKey |-> "",
      CacheTTL |-> 0,
      GenError |-> "nil",
      Method |-> "GET",
      Body |-> "nil",
      BodyContentType |-> "",
      Header |-> NoHeader,
      AcceptContentType |-> "",
      IgnoreStatusCode |-> FALSE ]

----------------------------------------------------------------------------
(* Content types and JSON decoding *)

\* strings.ToLower on the media types of the model
ToLower(s) ==
    CASE s = "Application/JSON" -> "application/json"
      [] OTHER -> s

\* mime.ParseMediaType(v), first result: the text before the first ";",
\* lower-cased; "" when there is no media type.  The parameters, which are
\* well-formed in every header of ContentTypes, are dropped.
ParseMediaType(v) ==
    IF v = <<>> THEN "" ELSE ToLower(Head(v))

matchContentType_raw(r, contentType) ==
    r.ContentType = <<contentType>>

\* matchContentType(resp, contentType)
matchContentType(r, contentType) ==
    contentType = ParseMediaType(r.ContentType)

\* json.NewDecoder(r).Decode(&result): the first JSON value of the stream is
\* decoded; no value, or one that is not JSON of the target type, is an error
Decodable(data) == data # <<>> /\ Head(data) \in {"objA", "objB"}

GenError_propagates(data, code) ==
    IF ~Decodable(data) THEN ForeignError("decode error")
    ELSE StructuredError(Head(data))

\* the function WithErrorType installs as GenError: GenError(r, code)
GenError(data, code) ==
    IF ~Decodable(data) THEN BadStatus(code)
    ELSE StructuredError(Head(data))

IsBadStatus_upperBoundOpen(statusCode) == statusCode < 200 \/ statusCode > 400

IsBadStatus_offByOne(statusCode) == statusCode <= 200 \/ statusCode >= 400

\* resp.StatusCode < 200 || resp.StatusCode >= 400
IsBadStatus(statusCode) == statusCode < 200 \/ statusCode >= 400

----------------------------------------------------------------------------
(* The external cache (razcache.Cache) *)

NoEntry == [present |-> FALSE, content |-> <<>>, ttl |-> 0]
Entry_withoutTTL(content, ttl) == [present |-> TRUE, content |-> content, ttl |-> 0]
\* the entry Cache.Set(key, content, ttl) stores (line 193)
Entry(content, ttl) == [present |-> TRUE, content |-> content, ttl |-> ttl]
\* what is known of the response an entry was written from: whether its status
\* code was in [200, 400), and its body as the transport delivered it
NoOrigin == [written |-> FALSE, good |-> FALSE, body |-> <<>>]
Origin(statusCode, body) ==
    [written |-> TRUE, good |-> (200 <= statusCode /\ statusCode < 400), body |-> body]

----------------------------------------------------------------------------
(* Download, step by step *)

NoRequest == [Method |-> "", URL |-> "", Body |-> "nil", Ctx |-> "", Client |-> "", Header |-> NoHeader]
NoResponse == [StatusCode |-> 0, ContentType |-> <<>>]
NoResult == [body |-> NilBody, err |-> NoError]
\* the pair (*T, error) of DownloadJSON; value "" is the nil pointer
NoWrapped == [done |-> FALSE, value |-> "", err |-> NoError]

RequestHeader_headerWins(o) ==
    IF o.BodyContentType # "" /\ o.Header["Content-Type"] = <<>>
    THEN HeaderSet(o.Header, "Content-Type", o.BodyContentType)
    ELSE o.Header

\* req.Header after lines 159-164: the configured headers, then Content-Type
\* overwritten when a body content type is configured
RequestHeader(o) ==
    IF o.BodyContentType # ""
    THEN HeaderSet(o.Header, "Content-Type", o.BodyContentType)
    ELSE o.Header

\* http.NewRequestWithContext fails on a url it cannot parse
ValidURL(u) == u # ":bad"

Init ==
    /\ DefaultDownloadOptions = InitialDefaults
    /\ pc = [c \in Calls |-> "Idle"]
    /\ url = [c \in Calls |-> ""]
    /\ args = [c \in Calls |-> <<>>]
    /\ opts = [c \in Calls |-> InitialDefaults]
    /\ lookup = [c \in Calls |-> "none"]
    /\ req = [c \in Calls |-> NoRequest]
    /\ resp = [c \in Calls |-> NoResponse]
    /\ respBody = [c \in Calls |-> NoStream]
    /\ result = [c \in Calls |-> NoResult]
    /\ exchanges = [c \in Calls |-> 0]
    /\ setResult = [c \in Calls |-> "none"]
    /\ cache = [k \in CacheKeys |-> NoEntry]
    /\ origin = [k \in CacheKeys |-> NoOrigin]
    /\ ncalls = 0
    /\ entry = [c \in Calls |-> "none"]
    /\ raised = [c \in Calls |-> ""]
    /\ wrapped = [c \in Calls |-> NoWrapped]

\* Download(url, o...) is entered, from the caller or from the function e
Enter(c, u, o, e) ==
    /\ pc[c] = "Idle"
    /\ entry' = [entry EXCEPT ![c] = e]
    /\ raised' = [raised EXCEPT ![c] = ""]
    /\ wrapped' = [wrapped EXCEPT ![c] = NoWrapped]
    /\ ncalls < MaxCalls
    /\ ncalls' = ncalls + 1
    /\ pc' = [pc EXCEPT ![c] = "Configuring"]
    /\ url' = [url EXCEPT ![c] = u]
    /\ args' = [args EXCEPT ![c] = o]
    /\ opts' = [opts EXCEPT ![c] = InitialDefaults]
    /\ lookup' = [lookup EXCEPT ![c] = "none"]
    /\ req' = [req EXCEPT ![c] = NoRequest]
    /\ resp' = [resp EXCEPT ![c] = NoResponse]
    /\ respBody' = [respBody EXCEPT ![c] = NoStream]
    /\ result' = [result EXCEPT ![c] = NoResult]
    /\ exchanges' = [exchanges EXCEPT ![c] = 0]
    /\ setResult' = [setResult EXCEPT ![c] = "none"]
    /\ UNCHANGED <<DefaultDownloadOptions, cache, origin>>

\* the caller calls Download(u, o...)
Call(c, u, o) == Enter(c, u, o, "Download")

Configure_onDefaultsItself(c) ==
    /\ pc[c] = "Configuring"
    /\ DefaultDownloadOptions' = ApplyAll(DefaultDownloadOptions, args[c])
    /\ opts' = [opts EXCEPT ![c] = ApplyAll(DefaultDownloadOptions, args[c])]
    /\ pc' = [pc EXCEPT ![c] = "CacheCheck"]
    /\ UNCHANGED <<url, args, lookup, req, resp, respBody,
                   result, exchanges, setResult, cache, origin, ncalls,
                   entry, raised, wrapped>>

\* opts := DefaultDownloadOptions; for _, o := range o { o(&opts) }
Configure(c) ==
    /\ pc[c] = "Configuring"
    /\ opts' = [opts EXCEPT ![c] = ApplyAll(DefaultDownloadOptions, args[c])]
    /\ pc' = [pc EXCEPT ![c] = "CacheCheck"]
    /\ UNCHANGED <<DefaultDownloadOptions, url, args, lookup, req, resp, respBody,
                   result, exchanges, setResult, cache, origin, ncalls,
                   entry, raised, wrapped>>

\* lines 155-164: the request is built, or NewRequestWithContext fails
BuildRequest(c) ==
    IF ValidURL(url[c])
    THEN /\ req' = [req EXCEPT ![c] =
                      [ Method |-> opts[c].Method, URL |-> url[c],
                        Body |-> opts[c].Body, Ctx |-> opts[c].Ctx,
                        Client |-> opts[c].Client,
                        Header |-> RequestHeader(opts[c]) ]]
         /\ pc' = [pc EXCEPT ![c] = "Exchanging"]
         /\ result' = result
    ELSE /\ req' = req
         /\ pc' = [pc EXCEPT ![c] = "Failed"]
         /\ result' = [result EXCEPT ![c] =
                         [body |-> NilBody, err |-> ForeignError("NewRequest error")]]

\* line 151: io.NopCloser(strings.NewReader(content))
HitStream(content) == MemStream(content)

\* lines 148-164: opts.Cache.Get(opts.CacheKey); a hit returns the content,
\* anything else goes on to build the request.  The option list is not read
\* after line 146 and is dropped here.
CacheCheck(c) ==
    /\ pc[c] = "CacheCheck"
    /\ \/ /\ opts[c].Cache = "nil"
          /\ lookup' = lookup
          /\ BuildRequest(c)
       \/ /\ opts[c].Cache # "nil"
          /\ cache[opts[c].CacheKey].present
          /\ lookup' = [lookup EXCEPT ![c] = "hit"]
          /\ result' = [result EXCEPT ![c] =
                          [ body |-> HitStream(cache[opts[c].CacheKey].content),
                            err |-> NoError ]]
          /\ pc' = [pc EXCEPT ![c] = "Done"]
          /\ req' = req
       \/ /\ opts[c].Cache # "nil"
          /\ ~cache[opts[c].CacheKey].present
          /\ lookup' = [lookup EXCEPT ![c] = "miss"]
          /\ BuildRequest(c)
       \/ /\ opts[c].Cache # "nil"
          /\ cache[opts[c].CacheKey].present
          /\ lookup' = [lookup EXCEPT ![c] = "error"]
          /\ BuildRequest(c)
    /\ args' = [args EXCEPT ![c] = <<>>]
    /\ UNCHANGED <<DefaultDownloadOptions, url, opts, resp, respBody,
                   exchanges, setResult, cache, origin, ncalls,
                   entry, raised, wrapped>>

\* line 165, opts.Client.Do(req) returns a response
Exchange(c, status, contentType, data, fails) ==
    /\ pc[c] = "Exchanging"
    /\ exchanges' = [exchanges EXCEPT ![c] = @ + 1]
    /\ resp' = [resp EXCEPT ![c] = [StatusCode |-> status, ContentType |-> contentType]]
    /\ respBody' = [respBody EXCEPT ![c] = NewStream(data, fails)]
    /\ pc' = [pc EXCEPT ![c] = "Classifying"]
    /\ UNCHANGED <<DefaultDownloadOptions, url, args, opts, lookup, req, result,
                   setResult, cache, origin, ncalls, entry, raised, wrapped>>

\* the errors Client.Do returns in the model
TransportErrors == {"timeout", "connection refused"}

TransportFailure_wrapped(e) == ForeignError("transport error")

\* lines 166-168: return nil, err
TransportFailure(e) == ForeignError(e)

\* line 165-168, opts.Client.Do(req) returns an error
ExchangeFails(c) ==
    /\ pc[c] = "Exchanging"
    /\ exchanges' = [exchanges EXCEPT ![c] = @ + 1]
    /\ \E e \in TransportErrors :
          /\ raised' = [raised EXCEPT ![c] = e]
          /\ result' = [result EXCEPT ![c] =
                          [body |-> NilBody, err |-> TransportFailure(e)]]
    /\ pc' = [pc EXCEPT ![c] = "Failed"]
    /\ UNCHANGED <<DefaultDownloadOptions, url, args, opts, lookup, req, resp,
                   respBody, setResult, cache, origin, ncalls, entry, wrapped>>

\* the stream after it was read to its end
ReadToEnd(s) == [s EXCEPT !.pos = Len(s.data)]
\* body.Close()
Close(s) == [s EXCEPT !.closed = TRUE]

\* lines 171-175: the error factory reads the body, which is closed on return
FactoryBranch(c) ==
    /\ result' = [result EXCEPT ![c] =
                    [ body |-> NilBody,
                      err |-> GenError(Rest(respBody[c]), resp[c].StatusCode) ]]
    /\ respBody' = [respBody EXCEPT ![c] = Close(ReadToEnd(@))]
    /\ pc' = [pc EXCEPT ![c] = "Failed"]

BadStatusBranch_returnsBodyToo(c) ==
    /\ result' = [result EXCEPT ![c] =
                    [body |-> RespStream, err |-> BadStatus(resp[c].StatusCode)]]
    /\ respBody' = [respBody EXCEPT ![c] = Close(@)]
    /\ pc' = [pc EXCEPT ![c] = "Failed"]

\* lines 176-179
BadStatusBranch(c) ==
    /\ result' = [result EXCEPT ![c] =
                    [body |-> NilBody, err |-> BadStatus(resp[c].StatusCode)]]
    /\ respBody' = [respBody EXCEPT ![c] = Close(@)]
    /\ pc' = [pc EXCEPT ![c] = "Failed"]

BadContentTypeBranch_noClose(c) ==
    /\ result' = [result EXCEPT ![c] =
                    [body |-> NilBody, err |-> BadContentType(resp[c].ContentType)]]
    /\ respBody' = respBody
    /\ pc' = [pc EXCEPT ![c] = "Failed"]

\* lines 182-185
BadContentTypeBranch(c) ==
    /\ result' = [result EXCEPT ![c] =
                    [body |-> NilBody, err |-> BadContentType(resp[c].ContentType)]]
    /\ respBody' = [respBody EXCEPT ![c] = Close(@)]
    /\ pc' = [pc EXCEPT ![c] = "Failed"]

\* lines 187 and 197: with a cache the body is read next, without one the
\* response's own stream is returned
AcceptBranch(c) ==
    IF opts[c].Cache # "nil"
    THEN /\ pc' = [pc EXCEPT ![c] = "WriteThrough"]
         /\ UNCHANGED <<result, respBody>>
    ELSE /\ result' = [result EXCEPT ![c] = [body |-> RespStream, err |-> NoError]]
         /\ pc' = [pc EXCEPT ![c] = "Done"]
         /\ UNCHANGED respBody

UsesFactory_afterIgnoreFlag(o, r) ==
    /\ IsBadStatus(r.StatusCode)
    /\ ~o.IgnoreStatusCode
    /\ o.GenError # "nil"
    /\ matchContentType(r, "application/json")

\* the conditions of lines 171-172
UsesFactory(o, r) ==
    /\ IsBadStatus(r.StatusCode)
    /\ o.GenError # "nil"
    /\ matchContentType(r, "application/json")

RejectsStatus_flagUnread(o, r) == IsBadStatus(r.StatusCode)

\* the conditions of lines 171 and 176, once line 172 did not hold
RejectsStatus(o, r) ==
    IsBadStatus(r.StatusCode) /\ ~o.IgnoreStatusCode

\* the condition of line 182
RejectsContentType(o, r) ==
    /\ o.AcceptContentType # ""
    /\ ~matchContentType(r, o.AcceptContentType)

\* lines 171-197, up to the read of the body
Classify(c) ==
    /\ pc[c] = "Classifying"
    /\ IF UsesFactory(opts[c], resp[c]) THEN FactoryBranch(c)
       ELSE IF RejectsStatus(opts[c], resp[c]) THEN BadStatusBranch(c)
       ELSE IF RejectsContentType(opts[c], resp[c]) THEN BadContentTypeBranch(c)
       ELSE AcceptBranch(c)
    /\ UNCHANGED <<DefaultDownloadOptions, url, args, opts, lookup, req, resp,
                   exchanges, setResult, cache, origin, ncalls,
                   entry, raised, wrapped>>

StoredContent_consumed(content) == <<>>

\* line 193: string(content), the bytes as they are
StoredContent(content) == content

\* the stream Download hands back after the write-through (line 194)
Substitute(content) == MemStream(content)

AfterSet_returnsSetError(setOK, content) ==
    IF setOK THEN [body |-> Substitute(content), err |-> NoError]
    ELSE [body |-> NilBody, err |-> ForeignError("cache error")]

\* lines 193-197: what Download returns after Cache.Set, whose error is dropped
AfterSet(setOK, content) == [body |-> Substitute(content), err |-> NoError]

\* resp.Body after lines 188-194 succeeded
AfterWriteThrough(s) == ReadToEnd(s)

\* lines 188-195: io.ReadAll(body), then Cache.Set, whose error is dropped
WriteThrough(c, setOK) ==
    /\ pc[c] = "WriteThrough"
    /\ IF respBody[c].fails
       THEN /\ respBody' = [respBody EXCEPT ![c] = Close(ReadToEnd(@))]
            /\ result' = [result EXCEPT ![c] =
                            [body |-> NilBody, err |-> ForeignError("read error")]]
            /\ pc' = [pc EXCEPT ![c] = "Failed"]
            /\ UNCHANGED <<cache, origin, setResult>>
       ELSE LET content == Rest(respBody[c])
                key == opts[c].CacheKey
            IN /\ respBody' = [respBody EXCEPT ![c] = AfterWriteThrough(@)]
               /\ setResult' = [setResult EXCEPT ![c] = IF setOK THEN "ok" ELSE "failed"]
               /\ IF setOK
                  THEN /\ cache' = [cache EXCEPT ![key] =
                                      Entry(StoredContent(content), opts[c].CacheTTL)]
                       /\ origin' = [origin EXCEPT ![key] =
                                       Origin(resp[c].StatusCode, respBody[c].data)]
                  ELSE UNCHANGED <<cache, origin>>
               /\ result' = [result EXCEPT ![c] = AfterSet(setOK, content)]
               /\ pc' = [pc EXCEPT ![c] = "Done"]
    /\ UNCHANGED <<DefaultDownloadOptions, url, args, opts, lookup, req, resp,
                   exchanges, ncalls, entry, raised, wrapped>>

JSONArgs_prepended(o) ==
    <<[op |-> "WithAcceptContentType", contentType |-> "application/json"]>> \o o

\* line 216: append(o, WithAcceptContentType("application/json"))
JSONArgs(o) ==
    Append(o, [op |-> "WithAcceptContentType", contentType |-> "application/json"])

\* the caller calls DownloadJSON(u, o...), which calls Download (line 216)
DownloadJSON(c, u, o) == Enter(c, u, JSONArgs(o), "DownloadJSON")

\* what the stream Download returned yields when it is read
StreamContent(c) ==
    IF result[c].body.kind = "resp" THEN Rest(respBody[c]) ELSE result[c].body.data
\* reading the stream ends in a read error instead of EOF
StreamFails(c) == result[c].body.kind = "resp" /\ respBody[c].fails

\* lines 222-227: decoder.Decode(result) reads one JSON value off the stream
JSONDecode(data, fails) ==
    IF Decodable(data)
    THEN [done |-> TRUE, value |-> Head(data), err |-> NoError]
    ELSE [ done |-> TRUE, value |-> "",
           err |-> ForeignError(IF data # <<>> THEN "syntax error"
                                ELSE IF fails THEN "read error" ELSE "EOF") ]

\* lines 217-227: DownloadJSON after Download returned
DecodeJSON(c) ==
    /\ pc[c] \in {"Done", "Failed"}
    /\ entry[c] = "DownloadJSON"
    /\ ~wrapped[c].done
    /\ IF result[c].err # NoError
       THEN /\ wrapped' = [wrapped EXCEPT ![c] =
                             [done |-> TRUE, value |-> "", err |-> result[c].err]]
            /\ respBody' = respBody
       ELSE /\ wrapped' = [wrapped EXCEPT ![c] =
                             JSONDecode(StreamContent(c), StreamFails(c))]
            /\ respBody' = IF result[c].body.kind = "resp"
                           THEN [respBody EXCEPT ![c] = Close(ReadToEnd(@))]
                           ELSE respBody
    /\ UNCHANGED <<DefaultDownloadOptions, pc, url, args, opts, lookup, req, resp,
                   result, exchanges, setResult, cache, origin, ncalls,
                   entry, raised>>

\* the caller has its result: the locals and the result handed over are gone
Return(c) ==
    /\ pc[c] \in {"Done", "Failed"}
    /\ entry[c] = "Download" \/ wrapped[c].done
    /\ entry' = [entry EXCEPT ![c] = "none"]
    /\ raised' = [raised EXCEPT ![c] = ""]
    /\ wrapped' = [wrapped EXCEPT ![c] = NoWrapped]
    /\ pc' = [pc EXCEPT ![c] = "Idle"]
    /\ url' = [url EXCEPT ![c] = ""]
    /\ opts' = [opts EXCEPT ![c] = InitialDefaults]
    /\ lookup' = [lookup EXCEPT ![c] = "none"]
    /\ req' = [req EXCEPT ![c] = NoRequest]
    /\ resp' = [resp EXCEPT ![c] = NoResponse]
    /\ respBody' = [respBody EXCEPT ![c] = NoStream]
    /\ result' = [result EXCEPT ![c] = NoResult]
    /\ exchanges' = [exchanges EXCEPT ![c] = 0]
    /\ setResult' = [setResult EXCEPT ![c] = "none"]
    /\ UNCHANGED <<DefaultDownloadOptions, args, cache, origin, ncalls>>

\* the cache drops an entry: its TTL ran out
Expire(k) ==
    /\ cache[k].present
    /\ cache' = [cache EXCEPT ![k] = NoEntry]
    /\ origin' = [origin EXCEPT ![k] = NoOrigin]
    /\ UNCHANGED <<DefaultDownloadOptions, pc, url, args, opts, lookup, req, resp,
                   respBody, result, exchanges, setResult, ncalls,
                   entry, raised, wrapped>>

----------------------------------------------------------------------------
(* The callers and the collaborators of the two specifications *)

CacheOption(key, ttl) == [op |-> "WithCache", cache |-> "cache", key |-> key, ttl |-> ttl]
AcceptOption(ct) == [op |-> "WithAcceptContentType", contentType |-> ct]
HeaderOption(key, value0, values) ==
    [op |-> "WithHeader", key |-> key, value0 |-> value0, values |-> values]

\* options that decide the classification of a response
ClassifierOptions ==
    { [op |-> "WithErrorType"], [op |-> "WithIgnoreStatusCode"],
      AcceptOption("application/json"), AcceptOption("text/plain") }

\* options that decide the cache gate, with some that decide the classification
CacheOptions ==
    { CacheOption("k1", 1), CacheOption("k2", 2),
      [op |-> "WithErrorType"], [op |-> "WithIgnoreStatusCode"],
      AcceptOption("application/json") }

\* options that decide the request
RequestOptions ==
    { HeaderOption("X", "a", <<>>), HeaderOption("X", "a", <<"b">>),
      HeaderOption("X", "c", <<>>), HeaderOption("x", "b", <<>>),
      HeaderOption("Content-Type", "text/plain", <<>>),
      [op |-> "WithBody", body |-> "body", contentType |-> "application/json"],
      [op |-> "WithBody", body |-> "body", contentType |-> ""],
      [op |-> "WithMethod", method |-> "POST"],
      [op |-> "WithFakeUserAgent", agent |-> "agent1"],
      [op |-> "WithContext", ctx |-> "nil"],
      [op |-> "WithContext", ctx |-> "ctx1"],
      [op |-> "WithClient", client |-> "nil"] }

ClassifierOptionLists == SeqsUpTo(ClassifierOptions, MaxOpts)
CacheOptionLists == SeqsUpTo(CacheOptions, MaxOpts)
RequestOptionLists == SeqsUpTo(RequestOptions, MaxOpts)
JSONOptions ==
    { [op |-> "WithErrorType"], [op |-> "WithIgnoreStatusCode"],
      AcceptOption("text/plain"), CacheOption("k1", 1) }
JSONOptionLists == SeqsUpTo(JSONOptions, MaxOpts)
LinearOptions ==
    { CacheOption("k1", 1), [op |-> "WithErrorType"],
      [op |-> "WithIgnoreStatusCode"], AcceptOption("application/json") }
LinearOptionLists == SeqsUpTo(LinearOptions, MaxOpts)
\* the option lists of two callers running at once
ConcurrentOptionLists ==
    { <<>>,
      <<[op |-> "WithIgnoreStatusCode"]>>,
      <<HeaderOption("X", "a", <<>>), [op |-> "WithMethod", method |-> "POST"]>>,
      <<[op |-> "WithErrorType"], AcceptOption("application/json")>>,
      <<CacheOption("k1", 1)>>,
      <<CacheOption("k1", 1), [op |-> "WithIgnoreStatusCode"]>> }

\* a caller that calls Download(u, o...) with u and o of its choice
Caller(c, urls, lists) ==
    pc[c] = "Idle" /\ \E u \in urls, o \in lists : Call(c, u, o)

\* One caller issuing Download calls one after the other, without a cache,
\* against a transport answering with any status, content type and body.
Next ==
    \/ Caller(1, URLs, ClassifierOptionLists)
    \/ \E c \in Calls : Configure(c)
    \/ \E c \in Calls : CacheCheck(c)
    \/ \E c \in Calls, status \in StatusCodes, ct \in ContentTypes,
          data \in Bodies, fails \in BOOLEAN : Exchange(c, status, ct, data, fails)
    \/ \E c \in Calls : ExchangeFails(c)
    \/ \E c \in Calls : Classify(c)
    \/ \E c \in Calls : Return(c)

Spec == Init /\ [][Next]_vars

CacheContentTypes ==
    { <<"application/json">>, <<"application/json", "charset=utf-8">>, <<"text/plain">> }

CacheBodies == {<<>>, <<"objA">>, <<"junk">>}

\* The same caller passing cache options, against a cache whose Get and Set
\* may fail and whose entries may expire.
NextCache ==
    \/ Caller(1, {"https://x/w"}, CacheOptionLists)
    \/ \E c \in Calls : Configure(c)
    \/ \E c \in Calls : CacheCheck(c)
    \/ \E c \in Calls, status \in StatusCodes, ct \in CacheContentTypes,
          data \in CacheBodies, fails \in BOOLEAN : Exchange(c, status, ct, data, fails)
    \/ \E c \in Calls : ExchangeFails(c)
    \/ \E c \in Calls : Classify(c)
    \/ \E c \in Calls, setOK \in BOOLEAN : WriteThrough(c, setOK)
    \/ \E c \in Calls : Return(c)
    \/ \E k \in CacheKeys : Expire(k)

SpecCache == Init /\ [][NextCache]_vars

\* The same caller passing request options, against a transport answering
\* with one fixed body.
NextAssembly ==
    \/ Caller(1, {"https://x/w"}, RequestOptionLists)
    \/ \E c \in Calls : Configure(c)
    \/ \E c \in Calls : CacheCheck(c)
    \/ \E c \in Calls, status \in {200, 400} :
          Exchange(c, status, <<"text/plain">>, <<"objA">>, FALSE)
    \/ \E c \in Calls : ExchangeFails(c)
    \/ \E c \in Calls : Classify(c)
    \/ \E c \in Calls : Return(c)

SpecAssembly == Init /\ [][NextAssembly]_vars

CallerJSON(c, urls, lists) ==
    pc[c] = "Idle" /\ \E u \in urls, o \in lists : DownloadJSON(c, u, o)

\* A caller of DownloadJSON, with or without a cache, against a transport
\* answering with any status, content type and body.
NextJSON ==
    \/ CallerJSON(1, {"https://x/w"}, JSONOptionLists)
    \/ \E c \in Calls : Configure(c)
    \/ \E c \in Calls : CacheCheck(c)
    \/ \E c \in Calls, status \in StatusCodes, ct \in ContentTypes,
          data \in Bodies, fails \in BOOLEAN : Exchange(c, status, ct, data, fails)
    \/ \E c \in Calls : ExchangeFails(c)
    \/ \E c \in Calls : Classify(c)
    \/ \E c \in Calls, setOK \in BOOLEAN : WriteThrough(c, setOK)
    \/ \E c \in Calls : DecodeJSON(c)
    \/ \E c \in Calls : Return(c)
    \/ \E k \in CacheKeys : Expire(k)

SpecJSON == Init /\ [][NextJSON]_vars

\* Two goroutines calling Download at once, their steps interleaved in every
\* order, sharing the cache and the transport.
NextConcurrent ==
    \/ \E c \in Calls : Caller(c, {"https://x/w"}, ConcurrentOptionLists)
    \/ \E c \in Calls : Configure(c)
    \/ \E c \in Calls : CacheCheck(c)
    \/ \E c \in Calls, status \in {200, 400},
          ct \in {<<"application/json">>, <<"text/plain">>} :
          Exchange(c, status, ct, <<"objA">>, FALSE)
    \/ \E c \in Calls : ExchangeFails(c)
    \/ \E c \in Calls : Classify(c)
    \/ \E c \in Calls, setOK \in BOOLEAN : WriteThrough(c, setOK)
    \/ \E c \in Calls : Return(c)
    \/ \E k \in CacheKeys : Expire(k)

SpecConcurrent == Init /\ [][NextConcurrent]_vars

\* the transport returns: line 165 comes back with a response or an error
TransportReturns(c) ==
    \/ \E status \in StatusCodes, ct \in CacheContentTypes,
          data \in CacheBodies, fails \in BOOLEAN : Exchange(c, status, ct, data, fails)
    \/ ExchangeFails(c)
\* the body read returns: io.ReadAll of line 188 comes back
BodyReadReturns(c) == \E setOK \in BOOLEAN : WriteThrough(c, setOK)

\* A caller of Download with any url, with or without a cache.
NextLinear ==
    \/ Caller(1, URLs, LinearOptionLists)
    \/ \E c \in Calls : Configure(c)
    \/ \E c \in Calls : CacheCheck(c)
    \/ \E c \in Calls : TransportReturns(c)
    \/ \E c \in Calls : Classify(c)
    \/ \E c \in Calls : BodyReadReturns(c)
    \/ \E c \in Calls : Return(c)
    \/ \E k \in CacheKeys : Expire(k)

\* Download runs on one goroutine with nothing to wait for but the transport
\* and the body read: each of its steps is taken once it can be, and the
\* two collaborators are taken to return.
SpecLinear ==
    /\ Init /\ [][NextLinear]_vars
    /\ \A c \in Calls :
          /\ WF_vars(Configure(c))
          /\ WF_vars(CacheCheck(c))
          /\ WF_vars(TransportReturns(c))
          /\ WF_vars(Classify(c))
          /\ WF_vars(BodyReadReturns(c))

----------------------------------------------------------------------------
(* Properties *)

\* Download has returned in call c
Returned(c) == pc[c] \in {"Done", "Failed"}
\* call c obtained a response from the transport
GotResponse(c) == respBody[c].open
\* the response's status code is in [200, 400)
GoodStatus(c) == 200 <= resp[c].StatusCode /\ resp[c].StatusCode < 400
\* what the caller reads from the stream it was handed
ReturnedContent(c) ==
    IF result[c].body.kind = "resp" THEN Rest(respBody[c]) ELSE result[c].body.data
\* Download returned a stream over the whole response body and no error
ReturnsWholeBody(c) ==
    /\ pc[c] = "Done"
    /\ result[c].err = NoError
    /\ result[c].body.kind # "nil"
    /\ ReturnedContent(c) = respBody[c].data
\* Download returned no stream and a BadStatusError with the response's code
ReturnsBadStatus(c) ==
    /\ pc[c] = "Failed"
    /\ result[c].body = NilBody
    /\ result[c].err.kind = "BadStatusError"
    /\ result[c].err.StatusCode = resp[c].StatusCode

\* C1: for every response status code in [200,400), with no accept content
\* type and no cache configured, Download returns no error and a stream
\* whose content is the response body, unaltered.
C1_GoodStatusReturnsBody ==
    \A c \in Calls :
        ( /\ Returned(c) /\ GotResponse(c) /\ GoodStatus(c)
          /\ opts[c].AcceptContentType = "" /\ opts[c].Cache = "nil" )
        => ( /\ ReturnsWholeBody(c)
             /\ result[c].body = RespStream
             /\ ~respBody[c].closed )

C1_Witness ==
    \E c \in Calls :
        /\ pc[c] = "Done" /\ resp[c].StatusCode = 399
        /\ opts[c].AcceptContentType = "" /\ opts[c].GenError # "nil"
        /\ respBody[c].data = <<"objA", "junk">>
        /\ ReturnedContent(c) = <<"objA", "junk">>

\* C2: for every response status code outside [200,400), with no error
\* factory and the ignore-status flag unset, Download returns no body and a
\* BadStatusError whose StatusCode is the response's status code.
C2_BadStatusReturnsBadStatusError ==
    \A c \in Calls :
        ( /\ Returned(c) /\ GotResponse(c) /\ ~GoodStatus(c)
          /\ opts[c].GenError = "nil" /\ ~opts[c].IgnoreStatusCode )
        => ReturnsBadStatus(c)

C2_Witness ==
    \E c \in Calls :
        /\ pc[c] = "Failed" /\ resp[c].StatusCode = 400
        /\ opts[c].GenError = "nil" /\ ~opts[c].IgnoreStatusCode
        /\ opts[c].AcceptContentType = "text/plain"
        /\ result[c].err.StatusCode = 400

\* C3, as claimed: with the ignore-status flag set and no error factory
\* configured, for every response status code Download returns the response
\* body and no error.
C3_IgnoreStatusAlwaysReturnsBody ==
    \A c \in Calls :
        ( /\ Returned(c) /\ GotResponse(c)
          /\ opts[c].IgnoreStatusCode /\ opts[c].GenError = "nil" )
        => ReturnsWholeBody(c)

\* C3, amended: with the ignore-status flag set and no error factory
\* configured, for every response status code Download returns the response
\* body and no error, unless the content-type step rejects the response or
\* the read of the body for the cache fails.
C3_IgnoreStatusReturnsBodyUnlessRejectedLater ==
    \A c \in Calls :
        ( /\ Returned(c) /\ GotResponse(c)
          /\ opts[c].IgnoreStatusCode /\ opts[c].GenError = "nil"
          /\ \/ opts[c].AcceptContentType = ""
             \/ opts[c].AcceptContentType = ParseMediaType(resp[c].ContentType)
          /\ ~(opts[c].Cache # "nil" /\ respBody[c].fails) )
        => ReturnsWholeBody(c)

C3_Witness ==
    \E c \in Calls :
        /\ pc[c] = "Done" /\ resp[c].StatusCode = 400
        /\ opts[c].IgnoreStatusCode /\ opts[c].GenError = "nil"
        /\ opts[c].AcceptContentType = "application/json"
        /\ resp[c].ContentType = <<"application/json", "charset=utf-8">>
        /\ opts[c].Cache = "nil"
        /\ result[c].body = RespStream /\ respBody[c].data = <<"junk">>

\* C4: with an error factory configured and a bad-status response whose
\* media type is application/json, with or without parameters, Download
\* fails with the structured error decoded from the body, or, when the body
\* does not decode, with a BadStatusError carrying the response's status
\* code; never with a decode error.
C4_FactoryDecodesOrFallsBack ==
    \A c \in Calls :
        ( /\ Returned(c) /\ GotResponse(c) /\ ~GoodStatus(c)
          /\ opts[c].GenError # "nil"
          /\ ParseMediaType(resp[c].ContentType) = "application/json" )
        => IF respBody[c].data # <<>> /\ Head(respBody[c].data) = "objA"
           THEN /\ pc[c] = "Failed"
                /\ result[c].body = NilBody
                /\ result[c].err.kind = "StructuredError"
                /\ result[c].err.value = "objA"
           ELSE ReturnsBadStatus(c)

C4_Witness ==
    \E c \in Calls :
        /\ pc[c] = "Failed" /\ resp[c].StatusCode = 199
        /\ opts[c].GenError # "nil" /\ opts[c].IgnoreStatusCode
        /\ resp[c].ContentType = <<"application/json", "charset=utf-8">>
        /\ respBody[c].data = <<"junk">>
        /\ result[c].err.kind = "BadStatusError"

\* the response got past lines 171-180
PassedStatusStep(c) ==
    \/ GoodStatus(c)
    \/ /\ opts[c].IgnoreStatusCode
       /\ ~( opts[c].GenError # "nil"
             /\ ParseMediaType(resp[c].ContentType) = "application/json" )

\* Download failed with the content-type error carrying the header as received
ReturnsBadContentType(c) ==
    /\ pc[c] = "Failed"
    /\ result[c].body = NilBody
    /\ result[c].err.kind = "bad content-type"
    /\ result[c].err.header = resp[c].ContentType

\* C6: with an accept content type configured and a response that passed the
\* status step, Download fails with the content-type error carrying the
\* Content-Type header as received if and only if the response's parsed media
\* type differs from the configured type; parameters alone never make a
\* mismatch.
C6_ContentTypeMismatchIffMediaTypeDiffers ==
    \A c \in Calls :
        ( /\ Returned(c) /\ GotResponse(c) /\ PassedStatusStep(c)
          /\ opts[c].AcceptContentType # "" )
        => /\ ReturnsBadContentType(c)
                <=> (ParseMediaType(resp[c].ContentType) # opts[c].AcceptContentType)
           /\ result[c].err.kind \in {"nil", "bad content-type"}
           /\ ( resp[c].ContentType # <<>>
                /\ Head(resp[c].ContentType) = opts[c].AcceptContentType )
              => result[c].err = NoError

C6_Witness ==
    \E c \in Calls :
        /\ pc[c] = "Done" /\ resp[c].StatusCode = 400 /\ opts[c].IgnoreStatusCode
        /\ opts[c].AcceptContentType = "text/plain"
        /\ resp[c].ContentType = <<"text/plain", "charset=utf-8">>
        /\ result[c].err = NoError

\* C5: a Download with a cache and key whose lookup misses performs exactly
\* one network exchange and stores the accepted body under the key; a later
\* Download with the same cache and key, the entry being there, returns the
\* content of that body with no network exchange and no check of status or
\* content type.
C5_CacheRoundTrip ==
    \A c \in Calls :
        LET key == opts[c].CacheKey IN
        /\ (pc[c] = "Done" /\ lookup[c] = "miss")
           => /\ exchanges[c] = 1
              /\ setResult[c] \in {"ok", "failed"}
              /\ (setResult[c] = "ok" /\ cache[key].present)
                 => /\ cache[key].content = respBody[c].data
                    /\ origin[key].body = respBody[c].data
        /\ (pc[c] = "Done" /\ lookup[c] = "hit")
           => /\ exchanges[c] = 0
              /\ ~GotResponse(c)
              /\ resp[c] = NoResponse
              /\ result[c].err = NoError
              /\ result[c].body.kind = "mem"
              /\ cache[key].present
                 => /\ origin[key].written
                    /\ result[c].body.data = origin[key].body

C5_Witness ==
    \E c \in Calls :
        /\ pc[c] = "Done" /\ lookup[c] = "hit" /\ ncalls = 2
        /\ opts[c].CacheKey = "k2"
        /\ opts[c].AcceptContentType = "application/json"
        /\ cache["k2"].present /\ cache["k2"].ttl = 2
        /\ origin["k2"].body = <<"objA">>
        /\ result[c].body.data = <<"objA">>
        /\ exchanges[c] = 0

\* C7: whenever Download returns an error after a response was obtained, the
\* response body stream has been closed.
C7_BodyClosedOnEveryError ==
    \A c \in Calls :
        (pc[c] = "Failed" /\ GotResponse(c)) => respBody[c].closed

C7_Witness ==
    \E c \in Calls :
        /\ pc[c] = "Failed" /\ GotResponse(c)
        /\ result[c].err.kind = "bad content-type"
        /\ resp[c].ContentType = <<"text/plain">>
        /\ opts[c].AcceptContentType = "application/json"
        /\ respBody[c].closed

\* C8: on a successful Download over the network with a cache configured,
\* the response body stream has been closed by Download and the caller gets
\* an in-memory stream of the whole body; without a cache the response's own
\* stream is returned open.
C8_SuccessClosesOrHandsOver ==
    \A c \in Calls :
        (pc[c] = "Done" /\ GotResponse(c))
        => IF opts[c].Cache # "nil"
           THEN /\ respBody[c].closed
                /\ result[c].body.kind = "mem"
                /\ result[c].body.data = respBody[c].data
           ELSE /\ result[c].body = RespStream
                /\ ~respBody[c].closed

\* the values one WithHeader option carries: value0, then values
OptionValues(o) ==
    IF o.op = "WithFakeUserAgent" THEN <<o.agent>> ELSE <<o.value0>> \o o.values
\* the header name an option writes, "" when it writes none
OptionKey(o) ==
    CASE o.op = "WithHeader" -> CanonicalMIMEHeaderKey(o.key)
      [] o.op = "WithFakeUserAgent" -> "User-Agent"
      [] OTHER -> ""
\* the positions of the options of os that write header name k
Writers(os, k) == {i \in 1..Len(os) : OptionKey(os[i]) = k}
Last(S) == CHOOSE i \in S : \A j \in S : j <= i

\* C9: setting X to "a" and adding "b" under X gives exactly ["a","b"] for X;
\* setting X to "a" and then setting X to "c" gives exactly ["c"].
C9_HeaderSetThenAddThenSet ==
    \A c \in Calls :
        pc[c] = "CacheCheck"
        => /\ args[c] = <<HeaderOption("X", "a", <<"b">>)>>
              => opts[c].Header["X"] = <<"a", "b">>
           /\ args[c] = <<HeaderOption("X", "a", <<>>), HeaderOption("X", "c", <<>>)>>
              => opts[c].Header["X"] = <<"c">>
           /\ args[c] = <<HeaderOption("X", "a", <<"b">>), HeaderOption("X", "c", <<>>)>>
              => opts[c].Header["X"] = <<"c">>

C9_Witness ==
    \E c \in Calls :
        /\ pc[c] = "CacheCheck"
        /\ args[c] = <<HeaderOption("X", "a", <<>>), HeaderOption("X", "c", <<>>)>>
        /\ opts[c].Header["X"] = <<"c">>

\* C10, as claimed: when two options of one call write the same header name,
\* the values of the later one are appended to those of the earlier one.
C10_LaterHeaderOptionAppends ==
    \A c \in Calls :
        ( /\ pc[c] = "CacheCheck" /\ Len(args[c]) = 2
          /\ args[c][1].op = "WithHeader" /\ args[c][2].op = "WithHeader"
          /\ OptionKey(args[c][1]) = OptionKey(args[c][2]) )
        => opts[c].Header[OptionKey(args[c][1])]
              = OptionValues(args[c][1]) \o OptionValues(args[c][2])

\* C10, amended: when several options of one call write the same header
\* name, the later one overwrites: the name's values are exactly those of the
\* last option writing it, value0 first and its further values after it; a
\* name no option writes has no values.
C10_LastHeaderOptionWins ==
    \A c \in Calls :
        pc[c] = "CacheCheck"
        => \A k \in HeaderNames :
              opts[c].Header[k] =
                 IF Writers(args[c], k) = {} THEN <<>>
                 ELSE OptionValues(args[c][Last(Writers(args[c], k))])

C10_Witness ==
    \E c \in Calls :
        /\ pc[c] = "CacheCheck"
        /\ args[c] = <<HeaderOption("X", "c", <<>>), HeaderOption("x", "b", <<>>),
                       HeaderOption("X", "a", <<"b">>)>>
        /\ opts[c].Header["X"] = <<"a", "b">>

----------------------------------------------------------------------------
(* DownloadJSON *)

\* DownloadJSON has returned to its caller
JSONReturned(c) == entry[c] = "DownloadJSON" /\ wrapped[c].done
\* the response's media type is application/json
IsJSONResponse(c) == ParseMediaType(resp[c].ContentType) = "application/json"
\* the whole response body reaches the decoder and starts with a JSON value
BodyDecodes(c) ==
    /\ Decodable(respBody[c].data)
    /\ ~(opts[c].Cache # "nil" /\ respBody[c].fails)
\* DownloadJSON returned a nil pointer and a BadStatusError with the response's code
JSONReturnsBadStatus(c) ==
    /\ wrapped[c].value = ""
    /\ wrapped[c].err.kind = "BadStatusError"
    /\ wrapped[c].err.StatusCode = resp[c].StatusCode
\* DownloadJSON returned a nil pointer and the error of decoder.Decode
JSONReturnsDecodeError(c) ==
    /\ wrapped[c].value = ""
    /\ wrapped[c].err.kind \in {"syntax error", "EOF", "read error"}
\* what holds of every DownloadJSON call whatever the ignore-status flag
JSONCommon(c) ==
    /\ (entry[c] = "DownloadJSON" /\ pc[c] \notin {"Idle", "Configuring"})
         => opts[c].AcceptContentType = "application/json"
    /\ (JSONReturned(c) /\ GotResponse(c) /\ GoodStatus(c) /\ IsJSONResponse(c)
           /\ BodyDecodes(c))
         => (wrapped[c].value = Head(respBody[c].data) /\ wrapped[c].err = NoError)
    /\ (JSONReturned(c) /\ result[c].err = NoError /\ wrapped[c].err # NoError)
         => JSONReturnsDecodeError(c)

\* C11 as stated: DownloadJSON is Download with the application/json accept
\* option appended after the caller's options, then a JSON decode; every
\* bad-status response with no error factory yields nil and a BadStatusError
\* with the response's code.
C11_JSONBadStatusWithoutFactoryFails ==
    \A c \in Calls :
        /\ JSONCommon(c)
        /\ (JSONReturned(c) /\ GotResponse(c) /\ ~GoodStatus(c)
               /\ opts[c].GenError = "nil")
             => JSONReturnsBadStatus(c)

\* C11, amended: DownloadJSON is Download with the application/json accept
\* option appended after the caller's options (so the accept type is
\* application/json whatever the caller passed), then a JSON decode: a
\* good-status application/json response whose body decodes yields the
\* decoded value and no error; a bad-status response with no error factory
\* and the ignore-status flag unset yields nil and a BadStatusError with the
\* response's code, whatever its content type; a body Download accepted
\* that does not decode yields nil and the decoder's error.
C11_JSONAppendsAcceptThenDecodes ==
    \A c \in Calls :
        /\ JSONCommon(c)
        /\ (JSONReturned(c) /\ GotResponse(c) /\ ~GoodStatus(c)
               /\ opts[c].GenError = "nil" /\ ~opts[c].IgnoreStatusCode)
             => JSONReturnsBadStatus(c)

C11_Witness ==
    \E c \in Calls :
        /\ JSONReturned(c)
        /\ resp[c].StatusCode = 200
        /\ resp[c].ContentType = <<"application/json", "charset=utf-8">>
        /\ respBody[c].data = <<"objA", "junk">>
        /\ wrapped[c].value = "objA"
        /\ wrapped[c].err = NoError

----------------------------------------------------------------------------
(* The cache is best-effort *)

\* C12: a lookup that fails (key absent or expired, or the backend's Get
\* returns an error) always goes on to the network path, and a cache write
\* that fails never makes the call fail: the call returns what it returns
\* when the write succeeds, the whole body in a fresh stream and no error.
C12_CacheIsBestEffort ==
    \A c \in Calls :
        /\ (lookup[c] \in {"miss", "error"} /\ ValidURL(url[c]))
             => ( /\ pc[c] \in {"Exchanging", "Classifying", "WriteThrough",
                               "Done", "Failed"}
                  /\ req[c] # NoRequest
                  /\ Returned(c) => exchanges[c] = 1 )
        /\ setResult[c] \in {"ok", "failed"}
             => ( /\ pc[c] = "Done"
                  /\ result[c] = [ body |-> [kind |-> "mem", data |-> respBody[c].data],
                                   err |-> NoError ] )

C12_Witness ==
    \E c \in Calls :
        /\ lookup[c] = "error"
        /\ setResult[c] = "failed"
        /\ pc[c] = "Done"
        /\ exchanges[c] = 1
        /\ result[c].body = [kind |-> "mem", data |-> <<"objA">>]

----------------------------------------------------------------------------
(* The headers of the outbound request *)

\* the positions of the WithBody options of os
BodyWriters(os) == {i \in 1..Len(os) : os[i].op = "WithBody"}
\* the body content type the options os configure, "" when none
ConfiguredBodyType(os) ==
    IF BodyWriters(os) = {} THEN "" ELSE os[Last(BodyWriters(os))].contentType
\* the values the options os configure for header name k
ConfiguredHeader(os, k) ==
    IF Writers(os, k) = {} THEN <<>> ELSE OptionValues(os[Last(Writers(os, k))])
\* call c builds its request in this step
BuildsRequest(c) == pc[c] = "CacheCheck" /\ pc'[c] = "Exchanging"

\* C13: when WithBody configured a non-empty body content type, the request's
\* Content-Type header is exactly that value, whatever Content-Type values
\* header options configured and wherever they stand relative to WithBody;
\* every other configured header is sent as configured.
C13_BodyContentTypeWins ==
    [][ \A c \in Calls :
          BuildsRequest(c)
          => /\ ConfiguredBodyType(args[c]) # ""
                => req'[c].Header["Content-Type"] = <<ConfiguredBodyType(args[c])>>
             /\ \A k \in HeaderNames \ {"Content-Type"} :
                   req'[c].Header[k] = ConfiguredHeader(args[c], k) ]_vars

C13_Witness ==
    \E c \in Calls :
        /\ pc[c] = "Exchanging"
        /\ opts[c].Header["Content-Type"] = <<"text/plain">>
        /\ opts[c].BodyContentType = "application/json"
        /\ req[c].Header["Content-Type"] = <<"application/json">>
        /\ req[c].Header["X"] = <<"a", "b">>

----------------------------------------------------------------------------
(* The order of the classifier *)

\* Download returned no stream and the error the factory made of the body
ReturnsFactoryError(c) ==
    /\ pc[c] = "Failed"
    /\ result[c].body = NilBody
    /\ result[c].err = IF Decodable(respBody[c].data)
                       THEN [ kind |-> "StructuredError", StatusCode |-> 0,
                              value |-> Head(respBody[c].data), header |-> <<>> ]
                       ELSE [ kind |-> "BadStatusError",
                              StatusCode |-> resp[c].StatusCode,
                              value |-> "", header |-> <<>> ]
    /\ respBody[c].pos = Len(respBody[c].data)
\* the response's media type differs from the accept content type configured
MediaTypeRejected(c) ==
    /\ opts[c].AcceptContentType # ""
    /\ ParseMediaType(resp[c].ContentType) # opts[c].AcceptContentType

\* C14: on a bad status the error-factory branch is decided first.  With a
\* factory configured and the media type application/json the call fails
\* with the factory's error, even with the ignore-status flag set and
\* whatever accept content type is configured.  With a factory configured
\* and another media type the factory is not invoked: without the flag the
\* call fails with the BadStatusError, with it the content-type step decides.
C14_FactoryBranchDecidedFirst ==
    \A c \in Calls :
        ( /\ Returned(c) /\ GotResponse(c) /\ ~GoodStatus(c)
          /\ opts[c].GenError # "nil" /\ opts[c].Cache = "nil" )
        => IF ParseMediaType(resp[c].ContentType) = "application/json"
           THEN ReturnsFactoryError(c)
           ELSE /\ result[c].err.kind # "StructuredError"
                /\ respBody[c].pos = 0
                /\ IF ~opts[c].IgnoreStatusCode THEN ReturnsBadStatus(c)
                   ELSE IF MediaTypeRejected(c) THEN ReturnsBadContentType(c)
                   ELSE ReturnsWholeBody(c)

C14_Witness ==
    \E c \in Calls :
        /\ pc[c] = "Failed"
        /\ resp[c].StatusCode = 400
        /\ resp[c].ContentType = <<"application/json", "charset=utf-8">>
        /\ opts[c].GenError # "nil"
        /\ opts[c].IgnoreStatusCode
        /\ opts[c].AcceptContentType = "text/plain"
        /\ result[c].err.kind = "StructuredError"

----------------------------------------------------------------------------
(* The write-through *)

\* call c writes the body of its response under its key in this step
WritesThrough(c, k) ==
    /\ pc[c] = "WriteThrough" /\ pc'[c] = "Done"
    /\ setResult[c] = "none"
    /\ lookup[c] # "hit" /\ exchanges[c] = 1
    /\ result'[c].err = NoError
    /\ k = opts[c].CacheKey
    /\ cache'[k] = [ present |-> TRUE, content |-> respBody[c].data,
                     ttl |-> opts[c].CacheTTL ]
\* a call that failed or was served from the cache has written nothing, and a
\* call that has written has returned success
WritesOnlyOnSuccess ==
    \A c \in Calls :
        /\ (Returned(c) /\ (result[c].err # NoError \/ lookup[c] = "hit"))
             => setResult[c] = "none"
        /\ setResult[c] # "none" => (pc[c] = "Done" /\ result[c].err = NoError)
\* the cache changes only by an entry expiring or by one write-through
CacheChangesByWriteThrough ==
    \A k \in CacheKeys :
        cache'[k] # cache[k]
        => \/ ~cache'[k].present
           \/ \E c \in Calls : WritesThrough(c, k)

\* C15: a call writes to the cache at most once, only when it returns success
\* from the network path, and then exactly the response body under the
\* configured key and TTL; a call that returns an error and a call served
\* from the cache leave the cache as it was.
C15_WriteThroughOnlyOnSuccess ==
    []WritesOnlyOnSuccess /\ [][CacheChangesByWriteThrough]_vars

C15_Witness ==
    \E c \in Calls :
        /\ pc[c] = "Done"
        /\ setResult[c] = "ok"
        /\ opts[c].CacheKey = "k2"
        /\ respBody[c].data = <<"objA">>
        /\ cache["k2"] = [present |-> TRUE, content |-> <<"objA">>, ttl |-> 2]

----------------------------------------------------------------------------
(* Transport failures *)

\* C16: an error of the transport is returned as the same error value, not
\* wrapped, with no body; there is no retry: a call makes at most one
\* exchange with the transport, and none when the cache answers.
C16_TransportErrorPassedOnNoRetry ==
    \A c \in Calls :
        /\ exchanges[c] <= 1
        /\ lookup[c] = "hit" => exchanges[c] = 0
        /\ raised[c] # ""
             => ( /\ pc[c] = "Failed"
                  /\ exchanges[c] = 1
                  /\ result[c].body = NilBody
                  /\ result[c].err = [ kind |-> raised[c], StatusCode |-> 0,
                                       value |-> "", header |-> <<>> ] )

C16_Witness ==
    \E c \in Calls :
        /\ pc[c] = "Failed"
        /\ lookup[c] = "miss"
        /\ raised[c] = "connection refused"
        /\ exchanges[c] = 1
        /\ result[c].err.kind = "connection refused"

----------------------------------------------------------------------------
(* The states of one call *)

\* the place of each state in the order of the state machine
Rank(state) ==
    CASE state = "Configuring" -> 1
      [] state = "CacheCheck" -> 2
      [] state = "Exchanging" -> 3
      [] state = "Classifying" -> 4
      [] state = "WriteThrough" -> 5
      [] OTHER -> 6
\* the steps of the state machine as it is written: the hit path from
\* CacheCheck to Done, the network path through Exchanging and Classifying
\* to Failed or through WriteThrough to Done
WrittenEdges ==
    { <<"Configuring", "CacheCheck">>, <<"CacheCheck", "Done">>,
      <<"CacheCheck", "Exchanging">>, <<"Exchanging", "Classifying">>,
      <<"Classifying", "Failed">>, <<"Classifying", "WriteThrough">>,
      <<"Classifying", "Done">>, <<"WriteThrough", "Done">> }
\* the failures before and after the classifier
FailureEdges ==
    { <<"CacheCheck", "Failed">>, <<"Exchanging", "Failed">>,
      <<"WriteThrough", "Failed">> }
\* every step of a running call is one of edges and moves forward
Follows(edges) ==
    \A c \in Calls :
        (pc[c] # "Idle" /\ pc'[c] # "Idle" /\ pc'[c] # pc[c])
        => /\ <<pc[c], pc'[c]>> \in edges
           /\ Rank(pc[c]) < Rank(pc'[c])
           /\ <<pc[c], pc'[c]>> = <<"CacheCheck", "Done">> => lookup'[c] = "hit"
           /\ <<pc[c], pc'[c]>> = <<"Classifying", "Done">> => opts[c].Cache = "nil"
\* a returned call hands over a body or an error, never both and never neither
OneOfBodyAndError ==
    \A c \in Calls :
        Returned(c) => ((result[c].body # NilBody) # (result[c].err # NoError))
\* every call that started returns
EveryCallReturns ==
    \A c \in Calls : (pc[c] = "Configuring") ~> Returned(c)

\* C17 as stated: every call follows Configuring -> CacheCheck -> (hit ->
\* Done) or (Exchanging -> Classifying -> Failed or WriteThrough -> Done),
\* visits no state twice, reaches Done or Failed when the transport and the
\* body read return, and returns exactly one of body and error.
C17_FollowsWrittenMachine ==
    /\ [][Follows(WrittenEdges)]_vars
    /\ []OneOfBodyAndError
    /\ EveryCallReturns

\* C17, amended: the same, with Failed entered also from CacheCheck when the
\* request cannot be built, from Exchanging when the transport fails and from
\* WriteThrough when the body read fails.
C17_FollowsMachineWithFailures ==
    /\ [][Follows(WrittenEdges \cup FailureEdges)]_vars
    /\ []OneOfBodyAndError
    /\ EveryCallReturns

C17_Witness ==
    \E c \in Calls :
        /\ pc[c] = "Done"
        /\ lookup[c] = "miss"
        /\ exchanges[c] = 1
        /\ setResult[c] = "ok"
        /\ result[c].body # NilBody
        /\ result[c].err = NoError

----------------------------------------------------------------------------
(* Calls running at once *)

\* everything call c holds of its own
Locals(c) ==
    <<pc[c], url[c], args[c], opts[c], lookup[c], req[c], resp[c], respBody[c],
      result[c], exchanges[c], setResult[c]>>
\* a step of one call leaves the other calls as they were, and a running call
\* keeps the options it was configured with
StepsAreLocal ==
    \A c \in Calls :
        /\ pc'[c] # pc[c]
             => \A d \in Calls \ {c} : Locals(d)' = Locals(d)
        /\ (pc[c] \notin {"Idle", "Configuring"} /\ pc'[c] # "Idle")
             => opts'[c] = opts[c]
\* the options of a call are the defaults changed by its own option list, and
\* its request and the status step follow its own options
OwnOptionsDecide ==
    \A c \in Calls :
        /\ pc[c] = "CacheCheck" => opts[c] = ApplyAll(InitialDefaults, args[c])
        /\ req[c] # NoRequest
             => ( /\ req[c].Method = opts[c].Method
                  /\ req[c].Header["X"] = opts[c].Header["X"] )
        /\ (Returned(c) /\ GotResponse(c) /\ ~GoodStatus(c)
              /\ ~opts[c].IgnoreStatusCode)
             => pc[c] = "Failed"
        /\ (Returned(c) /\ GotResponse(c) /\ opts[c].AcceptContentType = ""
              /\ (GoodStatus(c) \/ (opts[c].IgnoreStatusCode /\ opts[c].GenError = "nil"))
              /\ ~respBody[c].fails)
             => pc[c] = "Done"

\* C18: calls are independent.  Under every interleaving of Download calls
\* the options of a call are applied to its own copy: DefaultDownloadOptions
\* never changes, and no call's request or classification depends on another
\* call's options; the calls share only the cache and the transport.
C18_CallsAreIndependent ==
    /\ [](DefaultDownloadOptions = InitialDefaults)
    /\ []OwnOptionsDecide
    /\ [][StepsAreLocal]_vars

C18_Witness ==
    /\ pc[1] = "Failed" /\ pc[2] = "Done"
    /\ resp[1] = resp[2] /\ resp[2].StatusCode = 400
    /\ ~opts[1].IgnoreStatusCode /\ opts[2].IgnoreStatusCode
    /\ result[1].err.kind = "BadStatusError"
    /\ result[2].err = NoError

----------------------------------------------------------------------------
(* What a call that did not ask to ignore the status is served *)

\* call c returned success and did not ask to ignore the status code
SucceededWithoutIgnore(c) ==
    pc[c] = "Done" /\ result[c].err = NoError /\ ~opts[c].IgnoreStatusCode
\* call c was served from the cache, and the entry it was served is still there
ServedFromCache(c) == lookup[c] = "hit" /\ cache[opts[c].CacheKey].present

\* C19 as stated: over any sequence of calls sharing one cache written only
\* by Download, a call made without the ignore-status flag returns success
\* only with a body that came from a response whose status was in [200,400):
\* no bad-status body an earlier ignore-status call cached is served to it.
C19_SuccessOnlyFromGoodStatus ==
    \A c \in Calls :
        SucceededWithoutIgnore(c)
        => /\ lookup[c] # "hit" => (GotResponse(c) /\ GoodStatus(c))
           /\ ServedFromCache(c) => origin[opts[c].CacheKey].good

\* C19, amended: a call made without the ignore-status flag returns success
\* from the network path only with the body of a response whose status was in
\* [200,400); on a cache hit it returns the stored content as it is, whatever
\* the status of the response it was written from.
C19_NetworkSuccessOnlyFromGoodStatus ==
    \A c \in Calls :
        SucceededWithoutIgnore(c)
        => /\ lookup[c] # "hit"
              => ( /\ GotResponse(c) /\ GoodStatus(c)
                   /\ ReturnedContent(c) = respBody[c].data )
           /\ ServedFromCache(c)
              => ( /\ exchanges[c] = 0
                   /\ result[c].body.data = cache[opts[c].CacheKey].content
                   /\ result[c].body.data = origin[opts[c].CacheKey].body )

C19_Witness ==
    \E c \in Calls :
        /\ SucceededWithoutIgnore(c)
        /\ ServedFromCache(c)
        /\ ~origin[opts[c].CacheKey].good
        /\ result[c].body.data = <<"junk">>
====
